---- MODULE Spec2Model ----
(***************************************************************************)
(* Asset Management API (src/main.py): the bearer-token session layer, the *)
(* role gate and the resource handlers behind it, as a state machine.      *)
(*                                                                         *)
(* The document store is modelled as one sequence of documents per         *)
(* collection (insertion order); find_one returns the first match.         *)
(* Descriptive fields that no handler reads back (name, created_at,        *)
(* updated_at, created_by, serial_number, notes, ...) are left out.        *)
(* resp holds the response of the request a step handled (NoResp after a   *)
(* step of the clock or of storage); overlap is a history variable.        *)
(***************************************************************************)
EXTENDS Integers, Sequences, FiniteSets, TLC

VARIABLES
    users,          \* db["user"]
    TOKENS,         \* the process-wide session table (main.py:19)
    issued,         \* how many tokens secrets.token_urlsafe has produced
    now,            \* datetime.now(timezone.utc), in hours
    asset,          \* db["asset"]
    assignment,     \* db["assignment"]
    maintenance,    \* db["maintenance"]
    inventorythreshold, \* db["inventorythreshold"]
    requisition,    \* db["requisition"]
    resp,           \* the response of the request handled by the latest step
    procs,          \* requests in flight (handlers split at storage calls)
    overlap         \* history: pairs of handlers that ran interleaved

vars == <<users, TOKENS, issued, now, asset, assignment, maintenance,
          inventorythreshold, requisition, resp, procs, overlap>>

dbvars == <<users, asset, assignment, maintenance, inventorythreshold, requisition>>
resvars == <<asset, assignment, maintenance, inventorythreshold, requisition>>

----------------------------------------------------------------------------
(* Bounds of the model *)
MaxUsers == 2
MaxTokens == 2
MaxTime == 24
TickHours == 12
MaxAssets == 2
MaxAssignments == 2
MaxMaintenance == 2
MaxThresholds == 2
MaxRequisitions == 2
MaxDocuments == 1
MaxLevel == 1
MaxStored == 3

(* Program constants *)
SESSION_HOURS == 12
PASSWORD_SALT == "assetmgr_salt_v1"

(* Input domains *)
Roles == {"admin", "manager", "staff"}
Emails == {"a@x.org", "b@x.org"}
Passwords == {"pw1", "pw2"}
AssetIds == {"A1", "A2"}
Assignees == {"dept", "cust"}
Items == {"Widgets", "Bolts"}
Levels == 0..MaxLevel
Categories == {"purchase", "other"}

NoCred == [scheme |-> "none", token |-> 0]
Creds == {NoCred, [scheme |-> "basic", token |-> 1]}
            \cup [scheme : {"bearer"}, token : 1..MaxTokens]

Procs == {"p1", "p2"}
Idle == [op |-> "idle"]

NoResp == [status |-> 0, detail |-> "", role |-> "", token |-> 0]

----------------------------------------------------------------------------
(* Document-store primitives *)

Min(S) == CHOOSE x \in S : \A y \in S : x <= y

\* find_one: the first document (in insertion order) among the matches S,
\* 0 when there is none
FindOne(S) == IF S = {} THEN 0 ELSE Min(S)

FindUserByEmail(us, e) == FindOne({i \in 1..Len(us) : us[i].email = e})

\* a lookup that never finds an admin
FindAdmin_none(us) == 0

FindAdmin(us) == FindOne({i \in 1..Len(us) : us[i].role = "admin"})
FindAsset(as, a) == FindOne({i \in 1..Len(as) : as[i].asset_id = a})

----------------------------------------------------------------------------
(* Auth and security utilities *)

\* sha256 of salt + password: one-way and collision-free on the inputs used
hash_password(password) == <<"sha256", PASSWORD_SALT, password>>

\* the session table after create_token(user) stores the new token tok
create_token(toks, tok, user, t) ==
    [k \in (DOMAIN toks) \cup {tok} |->
        IF k = tok
        THEN [user_id |-> user.id, email |-> user.email, role |-> user.role,
              issued_at |-> t, expires_at |-> t + SESSION_HOURS]
        ELSE toks[k]]

TokensPop(toks, tok) == [k \in (DOMAIN toks) \ {tok} |-> toks[k]]

Expired(payload, t) == payload.expires_at < t

\* get_current_user: the raise of "Token expired" sits inside
\* try/except Exception: pass, so it is swallowed after the pop
get_current_user(cred, toks, us, t) ==
    IF cred.scheme # "bearer"
    THEN [status |-> 401, detail |-> "Not authenticated", uidx |-> 0, tokens |-> toks]
    ELSE IF cred.token \notin DOMAIN toks
    THEN [status |-> 401, detail |-> "Invalid token", uidx |-> 0, tokens |-> toks]
    ELSE LET payload == toks[cred.token]
             toks2 == IF Expired(payload, t) THEN TokensPop(toks, cred.token) ELSE toks
             u == FindUserByEmail(us, payload.email)
         IN IF u = 0
            THEN [status |-> 401, detail |-> "User not found", uidx |-> 0, tokens |-> toks2]
            ELSE [status |-> 200, detail |-> "", uidx |-> u, tokens |-> toks2]

\* a gate that decides on the role snapshot kept in the session entry
require_role_snapshot(required, cred, toks, us, t) ==
    LET g == get_current_user(cred, toks, us, t)
    IN IF g.status # 200 THEN g
       ELSE IF toks[cred.token].role \notin required
       THEN [g EXCEPT !.status = 403, !.detail = "Insufficient permissions"]
       ELSE g

\* a gate that lets every authenticated user through
require_role_any(required, cred, toks, us, t) == get_current_user(cred, toks, us, t)

\* require_role(required)._checker
require_role(required, cred, toks, us, t) ==
    LET g == get_current_user(cred, toks, us, t)
    IN IF g.status # 200 THEN g
       ELSE IF us[g.uidx].role \notin required
       THEN [g EXCEPT !.status = 403, !.detail = "Insufficient permissions"]
       ELSE g

AdminManager == {"admin", "manager"}
AnyRole == {"admin", "manager", "staff"}

----------------------------------------------------------------------------
Init ==
    /\ users = <<>>
    /\ TOKENS = <<>>
    /\ issued = 0
    /\ now = 0
    /\ asset = <<>>
    /\ assignment = <<>>
    /\ maintenance = <<>>
    /\ inventorythreshold = <<>>
    /\ requisition = <<>>
    /\ resp = NoResp
    /\ procs = [p \in Procs |-> Idle]
    /\ overlap = {}

----------------------------------------------------------------------------
(* Responses *)

Ok(role, tok) == [status |-> 200, detail |-> "", role |-> role, token |-> tok]
Fail(status, detail, role) == [status |-> status, detail |-> detail, role |-> role, token |-> 0]

\* the outcome of the auth dependency as a failure response
GateFail(g, us) == Fail(g.status, g.detail, IF g.uidx = 0 THEN "" ELSE us[g.uidx].role)
GateRole(g, us) == IF g.uidx = 0 THEN "" ELSE us[g.uidx].role

----------------------------------------------------------------------------
(* Auth endpoints *)

\* a registration that always honours the requested role
register_role_requested(admin_exists, role) == role

\* main.py:183, the role expression of user_doc
register_role(admin_exists, role) ==
    LET requester_role == IF ~admin_exists THEN "admin" ELSE "None"
    IN IF requester_role = "admin" THEN role
       ELSE (IF ~admin_exists THEN role ELSE "staff")

user_doc(id, email, password, role) ==
    [id |-> id, email |-> email, role |-> role, is_active |-> TRUE,
     hashed_password |-> hash_password(password)]

\* a registration that answers with the requested role, not the persisted one
RegisterInsert_echo(email, password, role, admin_exists) ==
    /\ Len(users) < MaxUsers
    /\ issued < MaxTokens
    /\ LET doc == [id |-> Len(users) + 1, email |-> email,
                   role |-> IF admin_exists THEN "staff" ELSE role, is_active |-> TRUE,
                   hashed_password |-> <<"sha256", PASSWORD_SALT, password>>]
           tok == issued + 1
       IN /\ users' = Append(users, doc)
          /\ TOKENS' = [k \in (DOMAIN TOKENS) \cup {tok} |->
                           IF k = tok
                           THEN [user_id |-> doc.id, email |-> doc.email, role |-> doc.role,
                                 issued_at |-> now, expires_at |-> now + SESSION_HOURS]
                           ELSE TOKENS[k]]
          /\ issued' = tok
          /\ resp' = [status |-> 200, detail |-> "", role |-> role, token |-> tok]

\* main.py:180-191: insert_one(user_doc), create_token(user_doc), the response
RegisterInsert(email, password, role, admin_exists) ==
    /\ Len(users) < MaxUsers
    /\ issued < MaxTokens
    /\ LET doc == user_doc(Len(users) + 1, email, password, register_role(admin_exists, role))
           tok == issued + 1
       IN /\ users' = Append(users, doc)
          /\ TOKENS' = create_token(TOKENS, tok, doc, now)
          /\ issued' = tok
          /\ resp' = Ok(doc.role, tok)

EmailTaken == Fail(400, "Email already registered", "")

\* a registration that does not look for a stored user with the same email
Register_dup(email, password, role) ==
    /\ RegisterInsert(email, password, role, FindAdmin(users) # 0)
    /\ UNCHANGED <<now, resvars, procs, overlap>>

\* POST /auth/register, run without interleaving
Register(email, password, role) ==
    /\ IF FindUserByEmail(users, email) # 0
       THEN resp' = EmailTaken /\ UNCHANGED <<users, TOKENS, issued>>
       ELSE RegisterInsert(email, password, role, FindAdmin(users) # 0)
    /\ UNCHANGED <<now, resvars, procs, overlap>>

InvalidCredentials == Fail(401, "Invalid credentials", "")

\* a login that tells an unknown email from a wrong password
Login_leaky(email, password) ==
    LET u == FindUserByEmail(users, email)
    IN /\ IF u = 0
          THEN /\ resp' = [status |-> 404, detail |-> "User not found", role |-> "", token |-> 0]
               /\ UNCHANGED <<TOKENS, issued>>
          ELSE IF users[u].hashed_password # hash_password(password)
          THEN /\ resp' = [status |-> 401, detail |-> "Invalid credentials", role |-> "", token |-> 0]
               /\ UNCHANGED <<TOKENS, issued>>
          ELSE /\ issued < MaxTokens
               /\ TOKENS' = create_token(TOKENS, issued + 1, users[u], now)
               /\ issued' = issued + 1
               /\ resp' = [status |-> 200, detail |-> "", role |-> users[u].role, token |-> issued + 1]
       /\ UNCHANGED <<users, now, resvars, procs, overlap>>

\* a login that ends the earlier sessions of the user
Login_single(email, password) ==
    LET u == FindUserByEmail(users, email)
    IN /\ IF u = 0
          THEN resp' = InvalidCredentials /\ UNCHANGED <<TOKENS, issued>>
          ELSE IF users[u].hashed_password # hash_password(password)
          THEN resp' = InvalidCredentials /\ UNCHANGED <<TOKENS, issued>>
          ELSE /\ issued < MaxTokens
               /\ TOKENS' = create_token(
                      [k \in {x \in DOMAIN TOKENS : TOKENS[x].email # email} |-> TOKENS[k]],
                      issued + 1, users[u], now)
               /\ issued' = issued + 1
               /\ resp' = Ok(users[u].role, issued + 1)
       /\ UNCHANGED <<users, now, resvars, procs, overlap>>

\* POST /auth/login
Login(email, password) ==
    LET u == FindUserByEmail(users, email)
    IN /\ IF u = 0
          THEN resp' = InvalidCredentials /\ UNCHANGED <<TOKENS, issued>>
          ELSE IF users[u].hashed_password # hash_password(password)
          THEN resp' = InvalidCredentials /\ UNCHANGED <<TOKENS, issued>>
          ELSE /\ issued < MaxTokens
               /\ TOKENS' = create_token(TOKENS, issued + 1, users[u], now)
               /\ issued' = issued + 1
               /\ resp' = Ok(users[u].role, issued + 1)
       /\ UNCHANGED <<users, now, resvars, procs, overlap>>

----------------------------------------------------------------------------
(* The environment: the clock, and user records edited in storage *)

Tick ==
    /\ now + TickHours <= MaxTime
    /\ now' = now + TickHours
    /\ resp' = NoResp
    /\ UNCHANGED <<dbvars, TOKENS, issued, procs, overlap>>

StorageSetRole(i, role) ==
    /\ i \in 1..Len(users)
    /\ users[i].role # role
    /\ users' = [users EXCEPT ![i].role = role]
    /\ resp' = NoResp
    /\ UNCHANGED <<resvars, TOKENS, issued, now, procs, overlap>>

StorageSetActive(i, flag) ==
    /\ i \in 1..Len(users)
    /\ users[i].is_active # flag
    /\ users' = [users EXCEPT ![i].is_active = flag]
    /\ resp' = NoResp
    /\ UNCHANGED <<resvars, TOKENS, issued, now, procs, overlap>>

----------------------------------------------------------------------------
(* Storage updates used by the resource handlers *)

ActiveOf(asgs, a) == {i \in 1..Len(asgs) : asgs[i].asset_id = a /\ asgs[i].active}

\* an update that deactivates nothing
DeactivateActive_none(asgs, a) == asgs

\* update_many({"asset_id": a, "active": True}, {"$set": {"active": False}})
DeactivateActive(asgs, a) ==
    [i \in 1..Len(asgs) |->
        IF asgs[i].asset_id = a /\ asgs[i].active
        THEN [asgs[i] EXCEPT !.active = FALSE] ELSE asgs[i]]

\* update_one({"asset_id": a}, {"$set": {"status": s}}): the first match only
SetStatus(as, a, s) ==
    LET i == FindAsset(as, a)
    IN IF i = 0 THEN as ELSE [as EXCEPT ![i].status = s]

\* update_one({"asset_id": a}, {"$push": {"documents": doc}})
PushDocument(as, a, doc) ==
    LET i == FindAsset(as, a)
    IN IF i = 0 THEN as ELSE [as EXCEPT ![i].documents = Append(@, doc)]

FindThreshold(ths, item) == FindOne({i \in 1..Len(ths) : ths[i].item_name = item})

\* an upsert that always inserts
UpsertOne_insert(ths, payload) == Append(ths, payload)

\* update_one({"item_name": item}, {"$set": payload}, upsert=True)
UpsertOne(ths, payload) ==
    LET i == FindThreshold(ths, payload.item_name)
    IN IF i = 0 THEN Append(ths, payload) ELSE [ths EXCEPT ![i] = payload]

asset_doc(a) ==
    [asset_id |-> a, status |-> "available", documents |-> <<>>]

assignment_doc(a, assignee) ==
    [asset_id |-> a, assignee_name |-> assignee, active |-> TRUE]

----------------------------------------------------------------------------
(* Resource endpoints, each run without interleaving: the auth dependency  *)
(* (require_role) and then the handler body                                *)

Gate(required, cred) == require_role(required, cred, TOKENS, users, now)

\* a create that does not look for a stored asset with the same id
CreateAsset_dup(cred, a) ==
    LET g == Gate(AdminManager, cred)
    IN /\ TOKENS' = g.tokens
       /\ IF g.status # 200
          THEN resp' = GateFail(g, users) /\ UNCHANGED asset
          ELSE /\ Len(asset) < MaxAssets
               /\ asset' = Append(asset, asset_doc(a))
               /\ resp' = Ok(GateRole(g, users), 0)
       /\ UNCHANGED <<users, issued, now, assignment, maintenance,
                      inventorythreshold, requisition, procs, overlap>>

\* POST /assets
CreateAsset(cred, a) ==
    LET g == Gate(AdminManager, cred)
    IN /\ TOKENS' = g.tokens
       /\ IF g.status # 200
          THEN resp' = GateFail(g, users) /\ UNCHANGED asset
          ELSE IF FindAsset(asset, a) # 0
          THEN resp' = Fail(400, "Asset ID already exists", GateRole(g, users)) /\ UNCHANGED asset
          ELSE /\ Len(asset) < MaxAssets
               /\ asset' = Append(asset, asset_doc(a))
               /\ resp' = Ok(GateRole(g, users), 0)
       /\ UNCHANGED <<users, issued, now, assignment, maintenance,
                      inventorythreshold, requisition, procs, overlap>>

\* POST /assets/{asset_id}/documents
UploadAssetDocument(cred, a, category) ==
    LET g == Gate(AdminManager, cred)
    IN /\ TOKENS' = g.tokens
       /\ IF g.status # 200
          THEN resp' = GateFail(g, users) /\ UNCHANGED asset
          ELSE IF FindAsset(asset, a) = 0
          THEN resp' = Fail(404, "Asset not found", GateRole(g, users)) /\ UNCHANGED asset
          ELSE /\ Len(asset[FindAsset(asset, a)].documents) < MaxDocuments
               /\ asset' = PushDocument(asset, a, [category |-> category, uploaded_at |-> now])
               /\ resp' = Ok(GateRole(g, users), 0)
       /\ UNCHANGED <<users, issued, now, assignment, maintenance,
                      inventorythreshold, requisition, procs, overlap>>

\* a handler that does not look the asset up
CreateAssignment_nocheck(cred, a, assignee) ==
    LET g == Gate(AdminManager, cred)
    IN /\ TOKENS' = g.tokens
       /\ IF g.status # 200
          THEN resp' = GateFail(g, users) /\ UNCHANGED <<asset, assignment>>
          ELSE /\ Len(assignment) < MaxAssignments
               /\ assignment' = Append(DeactivateActive(assignment, a),
                                       assignment_doc(a, assignee))
               /\ asset' = SetStatus(asset, a, "assigned")
               /\ resp' = Ok(GateRole(g, users), 0)
       /\ UNCHANGED <<users, issued, now, maintenance, inventorythreshold,
                      requisition, procs, overlap>>

\* POST /assignments
CreateAssignment(cred, a, assignee) ==
    LET g == Gate(AdminManager, cred)
    IN /\ TOKENS' = g.tokens
       /\ IF g.status # 200
          THEN resp' = GateFail(g, users) /\ UNCHANGED <<asset, assignment>>
          ELSE IF FindAsset(asset, a) = 0
          THEN /\ resp' = Fail(404, "Asset not found", GateRole(g, users))
               /\ UNCHANGED <<asset, assignment>>
          ELSE /\ Len(assignment) < MaxAssignments
               /\ assignment' = Append(DeactivateActive(assignment, a),
                                       assignment_doc(a, assignee))
               /\ asset' = SetStatus(asset, a, "assigned")
               /\ resp' = Ok(GateRole(g, users), 0)
       /\ UNCHANGED <<users, issued, now, maintenance, inventorythreshold,
                      requisition, procs, overlap>>

\* a return that leaves the asset's status as it was
ReturnAsset_keep(cred, a) ==
    LET g == Gate(AdminManager, cred)
    IN /\ TOKENS' = g.tokens
       /\ IF g.status # 200
          THEN resp' = GateFail(g, users) /\ UNCHANGED <<asset, assignment>>
          ELSE IF ActiveOf(assignment, a) = {}
          THEN /\ resp' = Fail(404, "No active assignment found", GateRole(g, users))
               /\ UNCHANGED <<asset, assignment>>
          ELSE /\ assignment' = DeactivateActive(assignment, a)
               /\ UNCHANGED asset
               /\ resp' = Ok(GateRole(g, users), 0)
       /\ UNCHANGED <<users, issued, now, maintenance, inventorythreshold,
                      requisition, procs, overlap>>

\* POST /assignments/{asset_id}/return
ReturnAsset(cred, a) ==
    LET g == Gate(AdminManager, cred)
    IN /\ TOKENS' = g.tokens
       /\ IF g.status # 200
          THEN resp' = GateFail(g, users) /\ UNCHANGED <<asset, assignment>>
          ELSE IF ActiveOf(assignment, a) = {}
          THEN /\ resp' = Fail(404, "No active assignment found", GateRole(g, users))
               /\ UNCHANGED <<asset, assignment>>
          ELSE /\ assignment' = DeactivateActive(assignment, a)
               /\ asset' = SetStatus(asset, a, "available")
               /\ resp' = Ok(GateRole(g, users), 0)
       /\ UNCHANGED <<users, issued, now, maintenance, inventorythreshold,
                      requisition, procs, overlap>>

\* GET /assignments?asset_id=a&active=flag
list_assignments(a, flag) ==
    SelectSeq(assignment, LAMBDA d : d.asset_id = a /\ d.active = flag)

\* a handler that marks the asset only when the service date has come
AddMaintenance_onDate(cred, a, day) ==
    LET g == Gate(AdminManager, cred)
    IN /\ TOKENS' = g.tokens
       /\ IF g.status # 200
          THEN resp' = GateFail(g, users) /\ UNCHANGED <<asset, maintenance>>
          ELSE IF FindAsset(asset, a) = 0
          THEN /\ resp' = Fail(404, "Asset not found", GateRole(g, users))
               /\ UNCHANGED <<asset, maintenance>>
          ELSE /\ Len(maintenance) < MaxMaintenance
               /\ maintenance' = Append(maintenance,
                      [asset_id |-> a, service_date |-> day])
               /\ asset' = IF day <= 0 THEN SetStatus(asset, a, "maintenance") ELSE asset
               /\ resp' = Ok(GateRole(g, users), 0)
       /\ UNCHANGED <<users, issued, now, assignment, inventorythreshold,
                      requisition, procs, overlap>>

\* POST /maintenance
AddMaintenance(cred, a, day) ==
    LET g == Gate(AdminManager, cred)
    IN /\ TOKENS' = g.tokens
       /\ IF g.status # 200
          THEN resp' = GateFail(g, users) /\ UNCHANGED <<asset, maintenance>>
          ELSE IF FindAsset(asset, a) = 0
          THEN /\ resp' = Fail(404, "Asset not found", GateRole(g, users))
               /\ UNCHANGED <<asset, maintenance>>
          ELSE /\ Len(maintenance) < MaxMaintenance
               /\ maintenance' = Append(maintenance,
                      [asset_id |-> a, service_date |-> day])
               /\ asset' = SetStatus(asset, a, "maintenance")
               /\ resp' = Ok(GateRole(g, users), 0)
       /\ UNCHANGED <<users, issued, now, assignment, inventorythreshold,
                      requisition, procs, overlap>>

\* POST /inventory-thresholds
UpsertThreshold(cred, item, current, min) ==
    LET g == Gate(AdminManager, cred)
        payload == [item_name |-> item, current_level |-> current, min_level |-> min]
    IN /\ TOKENS' = g.tokens
       /\ IF g.status # 200
          THEN resp' = GateFail(g, users) /\ UNCHANGED inventorythreshold
          ELSE /\ (FindThreshold(inventorythreshold, item) = 0
                      => Len(inventorythreshold) < MaxThresholds)
               /\ inventorythreshold' = UpsertOne(inventorythreshold, payload)
               /\ resp' = Ok(GateRole(g, users), 0)
       /\ UNCHANGED <<users, issued, now, asset, assignment, maintenance,
                      requisition, procs, overlap>>

\* a query that also returns the thresholds whose levels are equal
low_inventory_alerts_le ==
    SelectSeq(inventorythreshold, LAMBDA d : d.current_level <= d.min_level)

\* GET /alerts/low-inventory
low_inventory_alerts ==
    SelectSeq(inventorythreshold, LAMBDA d : d.current_level < d.min_level)

\* a handler that stores the requisition as pending
CreateRequisition_pending(cred, item, by, quantity, reason) ==
    LET g == Gate(AnyRole, cred)
    IN /\ TOKENS' = g.tokens
       /\ IF g.status # 200
          THEN resp' = GateFail(g, users) /\ UNCHANGED requisition
          ELSE /\ Len(requisition) < MaxRequisitions
               /\ requisition' = Append(requisition,
                      [item_name |-> item, requested_by |-> by, quantity |-> quantity,
                       reason |-> reason, status |-> "pending"])
               /\ resp' = Ok(GateRole(g, users), 0)
       /\ UNCHANGED <<users, issued, now, asset, assignment, maintenance,
                      inventorythreshold, procs, overlap>>

\* POST /requisitions
CreateRequisition(cred, item, by, quantity, reason) ==
    LET g == Gate(AnyRole, cred)
    IN /\ TOKENS' = g.tokens
       /\ IF g.status # 200
          THEN resp' = GateFail(g, users) /\ UNCHANGED requisition
          ELSE /\ Len(requisition) < MaxRequisitions
               /\ requisition' = Append(requisition,
                      [item_name |-> item, requested_by |-> by, quantity |-> quantity,
                       reason |-> reason, status |-> "open"])
               /\ resp' = Ok(GateRole(g, users), 0)
       /\ UNCHANGED <<users, issued, now, asset, assignment, maintenance,
                      inventorythreshold, procs, overlap>>

----------------------------------------------------------------------------------------------------------------------------------------
(* Concurrent requests: a handler runs as one step per storage call, and   *)
(* steps of two requests in flight interleave freely                       *)

Goto(p, rec) == procs' = [procs EXCEPT ![p] = rec]
Done(p) == procs' = [procs EXCEPT ![p] = Idle]

\* request p starts handler op: note the handlers already in flight
Begin(p, op) ==
    /\ procs[p].op = "idle"
    /\ overlap' = overlap \cup
          {{op, procs[q].op} : q \in {x \in Procs \ {p} : procs[x].op # "idle"}}

At(p, op, pc) == procs[p].op = op /\ procs[p].pc = pc

\* register, main.py:173: admin_exists = find_one({"role": "admin"})
RegFindAdmin(p, email, password, role) ==
    /\ Begin(p, "register")
    /\ Goto(p, [op |-> "register", pc |-> "find_email", email |-> email,
                password |-> password, role |-> role,
                admin_exists |-> FindAdmin(users) # 0])
    /\ resp' = NoResp
    /\ UNCHANGED <<dbvars, TOKENS, issued, now>>

\* register, main.py:176-178: existing = find_one({"email": ...})
RegFindEmail(p) ==
    /\ At(p, "register", "find_email")
    /\ IF FindUserByEmail(users, procs[p].email) # 0
       THEN resp' = EmailTaken /\ Done(p)
       ELSE resp' = NoResp /\ Goto(p, [procs[p] EXCEPT !.pc = "insert"])
    /\ UNCHANGED <<dbvars, TOKENS, issued, now, overlap>>

\* register, main.py:180-191: insert_one, create_token, return
RegInsert(p) ==
    /\ At(p, "register", "insert")
    /\ RegisterInsert(procs[p].email, procs[p].password, procs[p].role,
                      procs[p].admin_exists)
    /\ Done(p)
    /\ UNCHANGED <<resvars, now, overlap>>

\* create_assignment: the require_role dependency
AsgAuth(p, cred, a, assignee) ==
    LET g == Gate(AdminManager, cred)
    IN /\ Begin(p, "create_assignment")
       /\ TOKENS' = g.tokens
       /\ IF g.status # 200
          THEN resp' = GateFail(g, users) /\ UNCHANGED procs
          ELSE /\ resp' = NoResp
               /\ Goto(p, [op |-> "create_assignment", pc |-> "find_asset",
                           asset_id |-> a, assignee_name |-> assignee,
                           role |-> GateRole(g, users)])
       /\ UNCHANGED <<dbvars, issued, now>>

\* create_assignment, main.py:278-280
AsgFindAsset(p) ==
    /\ At(p, "create_assignment", "find_asset")
    /\ IF FindAsset(asset, procs[p].asset_id) = 0
       THEN resp' = Fail(404, "Asset not found", procs[p].role) /\ Done(p)
       ELSE resp' = NoResp /\ Goto(p, [procs[p] EXCEPT !.pc = "deactivate"])
    /\ UNCHANGED <<dbvars, TOKENS, issued, now, overlap>>

\* a reallocation step that deactivates nothing
AsgDeactivate_skip(p) ==
    /\ At(p, "create_assignment", "deactivate")
    /\ Goto(p, [procs[p] EXCEPT !.pc = "insert"])
    /\ resp' = NoResp
    /\ UNCHANGED <<dbvars, TOKENS, issued, now, overlap>>

\* create_assignment, main.py:283: update_many
AsgDeactivate(p) ==
    /\ At(p, "create_assignment", "deactivate")
    /\ assignment' = DeactivateActive(assignment, procs[p].asset_id)
    /\ Goto(p, [procs[p] EXCEPT !.pc = "insert"])
    /\ resp' = NoResp
    /\ UNCHANGED <<users, asset, maintenance, inventorythreshold, requisition,
                   TOKENS, issued, now, overlap>>

\* create_assignment, main.py:285-291: insert_one
AsgInsert(p) ==
    /\ At(p, "create_assignment", "insert")
    /\ Len(assignment) < MaxAssignments
    /\ assignment' = Append(assignment,
                            assignment_doc(procs[p].asset_id, procs[p].assignee_name))
    /\ Goto(p, [procs[p] EXCEPT !.pc = "set_status"])
    /\ resp' = NoResp
    /\ UNCHANGED <<users, asset, maintenance, inventorythreshold, requisition,
                   TOKENS, issued, now, overlap>>

\* create_assignment, main.py:294-296: update_one, return
AsgSetStatus(p) ==
    /\ At(p, "create_assignment", "set_status")
    /\ asset' = SetStatus(asset, procs[p].asset_id, "assigned")
    /\ resp' = Ok(procs[p].role, 0)
    /\ Done(p)
    /\ UNCHANGED <<users, assignment, maintenance, inventorythreshold, requisition,
                   TOKENS, issued, now, overlap>>

\* return_asset: the require_role dependency
RetAuth(p, cred, a) ==
    LET g == Gate(AdminManager, cred)
    IN /\ Begin(p, "return_asset")
       /\ TOKENS' = g.tokens
       /\ IF g.status # 200
          THEN resp' = GateFail(g, users) /\ UNCHANGED procs
          ELSE /\ resp' = NoResp
               /\ Goto(p, [op |-> "return_asset", pc |-> "deactivate",
                           asset_id |-> a, role |-> GateRole(g, users)])
       /\ UNCHANGED <<dbvars, issued, now>>

\* return_asset, main.py:301-303: update_many, modified_count
RetDeactivate(p) ==
    /\ At(p, "return_asset", "deactivate")
    /\ IF ActiveOf(assignment, procs[p].asset_id) = {}
       THEN /\ resp' = Fail(404, "No active assignment found", procs[p].role)
            /\ Done(p)
            /\ UNCHANGED assignment
       ELSE /\ assignment' = DeactivateActive(assignment, procs[p].asset_id)
            /\ resp' = NoResp
            /\ Goto(p, [procs[p] EXCEPT !.pc = "set_status"])
    /\ UNCHANGED <<users, asset, maintenance, inventorythreshold, requisition,
                   TOKENS, issued, now, overlap>>

\* a return that ends without writing the asset's status
RetSetStatus_skip(p) ==
    /\ At(p, "return_asset", "set_status")
    /\ resp' = Ok(procs[p].role, 0)
    /\ Done(p)
    /\ UNCHANGED <<dbvars, TOKENS, issued, now, overlap>>

\* return_asset, main.py:304-305: update_one, return
RetSetStatus(p) ==
    /\ At(p, "return_asset", "set_status")
    /\ asset' = SetStatus(asset, procs[p].asset_id, "available")
    /\ resp' = Ok(procs[p].role, 0)
    /\ Done(p)
    /\ UNCHANGED <<users, assignment, maintenance, inventorythreshold, requisition,
                   TOKENS, issued, now, overlap>>

----------------------------------------------------------------------------
(* Specifications *)

ServiceDays == {0, 30}
Requesters == {"ann", "bob"}
Quantities == {1, 5}
Reasons == {"none", "restock"}

\* registration and login
NextAuth ==
    \/ \E e \in Emails, p \in Passwords, r \in Roles : Register(e, p, r)
    \/ \E e \in Emails, p \in Passwords : Login(e, p)
    \/ \E i \in 1..MaxUsers, r \in Roles : StorageSetRole(i, r)

SpecAuth == Init /\ [][NextAuth]_vars

\* the session layer: sessions issued by registration, the clock, role
\* edits of user records in storage, and a gated endpoint
NextSession ==
    \/ \E e \in Emails, r \in Roles : Register(e, "pw1", r)
    \/ Tick
    \/ \E i \in 1..MaxUsers, r \in Roles : StorageSetRole(i, r)
    \/ \E c \in Creds, a \in AssetIds : CreateAsset(c, a)

SpecSession == Init /\ [][NextSession]_vars

\* deactivation of user records in storage, and the gated endpoints
NextDeactivate ==
    \/ \E e \in Emails, r \in Roles : Register(e, "pw1", r)
    \/ \E i \in 1..MaxUsers, f \in BOOLEAN : StorageSetActive(i, f)
    \/ \E c \in Creds, a \in AssetIds : CreateAsset(c, a)
    \/ \E c \in Creds, q \in Quantities : CreateRequisition(c, "Widgets", "ann", q, "none")

SpecDeactivate == Init /\ [][NextDeactivate]_vars

\* documents held by the resource collections
Stored ==
    Len(asset) + Len(assignment) + Len(maintenance) + Len(inventorythreshold)
        + Len(requisition)

\* assets, assignments and maintenance, each request run to completion
NextAssets ==
    \/ \E r \in Roles : Register("a@x.org", "pw1", r)
    \/ Stored < MaxStored /\ \E c \in Creds, a \in AssetIds : CreateAsset(c, a)
    \/ Stored < MaxStored /\ \E c \in Creds, a \in AssetIds, n \in Assignees : CreateAssignment(c, a, n)
    \/ Stored < MaxStored /\ \E c \in Creds, a \in AssetIds : ReturnAsset(c, a)
    \/ Stored < MaxStored /\ \E c \in Creds, a \in AssetIds, d \in ServiceDays : AddMaintenance(c, a, d)

SpecAssets == Init /\ [][NextAssets]_vars

\* every endpoint, each request run to completion before the next
Next ==
    \/ \E r \in Roles : Register("a@x.org", "pw1", r)
    \/ \E i \in 1..MaxUsers, r \in Roles : StorageSetRole(i, r)
    \/ Tick
    \/ Stored < MaxStored /\ \E c \in Creds, a \in AssetIds : CreateAsset(c, a)
    \/ Stored < MaxStored /\ \E c \in Creds : UploadAssetDocument(c, "A1", "other")
    \/ Stored < MaxStored /\ \E c \in Creds : CreateAssignment(c, "A1", "dept")
    \/ Stored < MaxStored /\ \E c \in Creds : ReturnAsset(c, "A1")
    \/ Stored < MaxStored /\ \E c \in Creds : AddMaintenance(c, "A1", 0)
    \/ Stored < MaxStored /\ \E c \in Creds : UpsertThreshold(c, "Widgets", 0, 1)
    \/ Stored < MaxStored /\ \E c \in Creds : CreateRequisition(c, "Widgets", "ann", 1, "none")

Spec == Init /\ [][Next]_vars

\* concurrent registrations
NextRace ==
    \/ \E p \in Procs, e \in Emails, r \in Roles : RegFindAdmin(p, e, "pw1", r)
    \/ \E p \in Procs : RegFindEmail(p)
    \/ \E p \in Procs : RegInsert(p)

SpecRace == Init /\ [][NextRace]_vars

\* concurrent assignments and returns (users and assets are created between
\* them, in one step each)
NextConc ==
    \/ \E r \in Roles : Register("a@x.org", "pw1", r)
    \/ \E c \in Creds : CreateAsset(c, "A1")
    \/ \E p \in Procs, c \in Creds, a \in AssetIds : AsgAuth(p, c, a, "dept")
    \/ \E p \in Procs : AsgFindAsset(p)
    \/ \E p \in Procs : AsgDeactivate(p)
    \/ \E p \in Procs : AsgInsert(p)
    \/ \E p \in Procs : AsgSetStatus(p)
    \/ \E p \in Procs, c \in Creds, a \in AssetIds : RetAuth(p, c, a)
    \/ \E p \in Procs : RetDeactivate(p)
    \/ \E p \in Procs : RetSetStatus(p)

SpecConc == Init /\ [][NextConc]_vars

\* no request is in flight
Quiet == \A p \in Procs : procs[p] = Idle

\* assignments, returns and maintenance of one asset: assignments and
\* returns in flight together, maintenance recorded while no other request
\* is in flight
NextStatus ==
    \/ \E r \in Roles : Register("a@x.org", "pw1", r)
    \/ \E c \in Creds : CreateAsset(c, "A1")
    \/ \E p \in Procs, c \in Creds : AsgAuth(p, c, "A1", "dept")
    \/ \E p \in Procs : AsgFindAsset(p)
    \/ \E p \in Procs : AsgDeactivate(p)
    \/ \E p \in Procs : AsgInsert(p)
    \/ \E p \in Procs : AsgSetStatus(p)
    \/ \E p \in Procs, c \in Creds : RetAuth(p, c, "A1")
    \/ \E p \in Procs : RetDeactivate(p)
    \/ \E p \in Procs : RetSetStatus(p)
    \/ Quiet /\ \E c \in Creds : AddMaintenance(c, "A1", 0)

SpecStatus == Init /\ [][NextStatus]_vars

\* the inventory thresholds of one user
NextThresholds ==
    \/ \E r \in Roles : Register("a@x.org", "pw1", r)
    \/ \E c \in Creds, i \in Items, x, y \in Levels : UpsertThreshold(c, i, x, y)

SpecThresholds == Init /\ [][NextThresholds]_vars

\* the requisitions of one user, next to writes to other collections
NextRequisitions ==
    \/ \E r \in Roles : Register("a@x.org", "pw1", r)
    \/ \E c \in Creds, b \in Requesters, q \in Quantities, rs \in Reasons :
          CreateRequisition(c, "Widgets", b, q, rs)
    \/ \E c \in Creds : UpsertThreshold(c, "Widgets", 0, 1)
    \/ \E c \in Creds : CreateAsset(c, "A1")

SpecRequisitions == Init /\ [][NextRequisitions]_vars

\* the sessions of one user over time: registration, logins, gated requests
NextTokens ==
    \/ \E r \in Roles : Register("a@x.org", "pw1", r)
    \/ \E p \in Passwords : Login("a@x.org", p)
    \/ Tick
    \/ \E c \in Creds : CreateAsset(c, "A1")

SpecTokens == Init /\ [][NextTokens]_vars

----------------------------------------------------------------------------
(* Properties of the session layer *)

Admins(us) == {i \in 1..Len(us) : us[i].role = "admin"}
Newest(us) == us[Len(us)]

\* the user record a presented credential resolves to (0: none)
SessionUser(c) ==
    IF c.scheme = "bearer" /\ c.token \in DOMAIN TOKENS
    THEN FindUserByEmail(users, TOKENS[c.token].email) ELSE 0

\* C1: a gated request presenting a token later than its expiry fails with
\* 401 and that call removes the token's entry from the session table
C1_ExpiredTokenRejected ==
    [][\A c \in Creds, a \in AssetIds :
          (/\ CreateAsset(c, a)
           /\ c.scheme = "bearer"
           /\ c.token \in DOMAIN TOKENS
           /\ now > TOKENS[c.token].issued_at + SESSION_HOURS)
          => (resp'.status = 401 /\ c.token \notin DOMAIN TOKENS')]_vars

\* C2 as stated: every successful registration other than the first one
\* persists role "staff", whatever was requested
C2_LaterRegistrationsAreStaff ==
    [][\A e \in Emails, p \in Passwords, r \in Roles :
          (Register(e, p, r) /\ resp'.status = 200 /\ Len(users) >= 1)
          => Newest(users').role = "staff"]_vars

\* C2 as amended: every successful registration made while a user with role
\* "admin" is stored persists role "staff", whatever was requested
C2_StaffWhileAdminStored ==
    [][\A e \in Emails, p \in Passwords, r \in Roles :
          (Register(e, p, r) /\ resp'.status = 200 /\ Admins(users) # {})
          => (Len(users') = Len(users) + 1 /\ Newest(users').role = "staff")]_vars

\* a second registrant was stored as staff after an admin
C2_Witness ==
    /\ Len(users) = 2
    /\ users[1].role = "admin"
    /\ users[2].role = "staff"
    /\ resp.status = 200 /\ resp.token = 2 /\ 2 \in DOMAIN TOKENS
    /\ TOKENS[2].email = users[2].email

\* C3: register persists the requested role when no admin is stored and
\* "staff" when one is, and returns the persisted role to the caller
C3_EffectiveRole ==
    [][\A e \in Emails, p \in Passwords, r \in Roles :
          (Register(e, p, r) /\ resp'.status = 200)
          => /\ Len(users') = Len(users) + 1
             /\ Newest(users').email = e
             /\ Newest(users').role = (IF Admins(users) = {} THEN r ELSE "staff")
             /\ resp'.role = Newest(users').role]_vars

\* the first registrant of an empty system asked for admin and got it
C3_Witness ==
    /\ Len(users) = 1
    /\ users[1].role = "admin"
    /\ resp.status = 200 /\ resp.role = "admin" /\ resp.token = 1

\* C5: a gated request presenting a session within its lifetime resolves it
\* to the stored user record, and the role check decides on the stored role,
\* not on the role snapshot kept in the session entry
C5_StoredRoleDecides ==
    [][\A c \in Creds, a \in AssetIds :
          (/\ CreateAsset(c, a)
           /\ SessionUser(c) # 0
           /\ now <= TOKENS[c.token].issued_at + SESSION_HOURS)
          => /\ resp'.role = users[SessionUser(c)].role
             /\ (resp'.status = 403) <=>
                    (users[SessionUser(c)].role \notin {"admin", "manager"})]_vars

\* a session issued to an admin was refused after the stored role became staff
C5_Witness ==
    /\ issued = 1 /\ 1 \in DOMAIN TOKENS
    /\ TOKENS[1].role = "admin"
    /\ users[1].role = "staff"
    /\ resp.status = 403 /\ resp.role = "staff"

\* C6: a gated request presenting the session of a user whose stored record
\* is inactive is not authorized
C6_InactiveUserRejected ==
    [][\A c \in Creds, a \in AssetIds :
          (/\ CreateAsset(c, a)
           /\ SessionUser(c) # 0
           /\ ~users[SessionUser(c)].is_active)
          => (resp'.status \in {401, 403} /\ asset' = asset)]_vars

\* C7: login with an unknown email and login with a wrong password give the
\* same 401 "Invalid credentials" and change neither sessions nor users
C7_LoginFailuresIdentical ==
    [][\A e \in Emails, p \in Passwords :
          (/\ Login(e, p)
           /\ \/ FindUserByEmail(users, e) = 0
              \/ users[FindUserByEmail(users, e)].hashed_password # hash_password(p))
          => /\ resp'.status = 401
             /\ resp'.detail = "Invalid credentials"
             /\ resp'.token = 0
             /\ UNCHANGED <<TOKENS, issued, users>>]_vars

\* every email is registered, so the failure is a wrong password
C7_Witness ==
    /\ {users[i].email : i \in 1..Len(users)} = Emails
    /\ resp.status = 401 /\ resp.detail = "Invalid credentials"

----------------------------------------------------------------------------
(* Properties of the gate and of the resource handlers *)

Authenticated(c) == SessionUser(c) # 0
Authorized(c, allowed) == Authenticated(c) /\ users[SessionUser(c)].role \in allowed

\* what the claim asks of a gated request presenting c
GateContract(c, allowed) ==
    /\ ~Authenticated(c) => (resp'.status = 401 /\ UNCHANGED dbvars)
    /\ (Authenticated(c) /\ ~Authorized(c, allowed)) =>
           (resp'.status = 403 /\ UNCHANGED dbvars)

\* C8: a gated mutating request changes no collection unless it presents a
\* token of the session table whose user's stored role is allowed for the
\* operation; without such a token it answers 401, with an insufficient
\* role 403
C8_GatedMutations ==
    [][\A c \in Creds :
          /\ ~Authorized(c, {"admin", "manager"}) =>
                /\ \A a \in AssetIds :
                      CreateAsset(c, a) => GateContract(c, {"admin", "manager"})
                /\ UploadAssetDocument(c, "A1", "other")
                      => GateContract(c, {"admin", "manager"})
                /\ CreateAssignment(c, "A1", "dept")
                      => GateContract(c, {"admin", "manager"})
                /\ ReturnAsset(c, "A1") => GateContract(c, {"admin", "manager"})
                /\ AddMaintenance(c, "A1", 0) => GateContract(c, {"admin", "manager"})
                /\ UpsertThreshold(c, "Widgets", 0, 1)
                      => GateContract(c, {"admin", "manager"})
          /\ ~Authorized(c, {"admin", "manager", "staff"}) =>
                (CreateRequisition(c, "Widgets", "ann", 1, "none")
                      => GateContract(c, {"admin", "manager", "staff"}))]_vars

\* a staff session was refused while the store already held a document
C8_Witness ==
    /\ resp.status = 403 /\ resp.role = "staff"
    /\ Stored >= 1
    /\ \E k \in DOMAIN TOKENS : users[FindUserByEmail(users, TOKENS[k].email)].role = "staff"

\* C9: without interleaving every asset has at most one active assignment,
\* and a successful create-assignment leaves exactly one active assignment
\* for its asset, the one it inserted
C9_OneActiveAssignment ==
    [][/\ \A a \in AssetIds : Cardinality(ActiveOf(assignment', a)) <= 1
       /\ \A c \in Creds, a \in AssetIds, n \in Assignees :
             (CreateAssignment(c, a, n) /\ resp'.status = 200)
             => /\ ActiveOf(assignment', a) = {Len(assignment')}
                /\ Len(list_assignments(a, TRUE)') = 1
                /\ assignment'[Len(assignment')].assignee_name = n]_vars

\* a second assignment of the same asset deactivated the first
C9_Witness ==
    /\ Len(assignment) = 2
    /\ assignment[1].asset_id = assignment[2].asset_id
    /\ ~assignment[1].active /\ assignment[2].active
    /\ resp.status = 200
    /\ asset[FindAsset(asset, assignment[2].asset_id)].status = "assigned"

----------------------------------------------------------------------------
(* Properties of interleaved requests *)

\* C4: two stored admins arise only from registrations that interleaved;
\* registrations that do not interleave store at most one admin
C4_OneAdminUnlessInterleaved ==
    {"register"} \notin overlap => Cardinality(Admins(users)) <= 1

\* both registrations read "no admin" before either inserted
C4_TwoAdmins ==
    /\ Len(users) = 2
    /\ users[1].email # users[2].email
    /\ users[1].role = "admin" /\ users[2].role = "admin"
    /\ {"register"} \in overlap

\* C10: an asset has two active assignments only after two create-assignment
\* requests interleaved
C10_TwoActiveOnlyInterleaved ==
    \A a \in AssetIds :
        Cardinality(ActiveOf(assignment, a)) >= 2 => {"create_assignment"} \in overlap

\* both requests deactivated before either inserted
C10_TwoActive ==
    \E a \in AssetIds : Cardinality(ActiveOf(assignment, a)) = 2

----------------------------------------------------------------------------
(* Properties of the asset handlers run without interleaving *)

\* C11: a return for an asset with no active assignment answers 404 and
\* changes neither the assets nor the assignments; a return for an asset
\* with an active assignment deactivates every active assignment of that
\* asset (and no other) and sets the asset's status to "available"
C11_ReturnAsset ==
    [][\A c \in Creds, a \in AssetIds :
          (Authorized(c, AdminManager) /\ ReturnAsset(c, a))
          => IF ActiveOf(assignment, a) = {}
             THEN /\ resp'.status = 404
                  /\ UNCHANGED <<asset, assignment>>
             ELSE /\ resp'.status = 200
                  /\ ActiveOf(assignment', a) = {}
                  /\ Len(assignment') = Len(assignment)
                  /\ \A i \in 1..Len(assignment) :
                        /\ assignment'[i].asset_id = assignment[i].asset_id
                        /\ assignment'[i].assignee_name = assignment[i].assignee_name
                        /\ assignment[i].asset_id # a => assignment'[i] = assignment[i]
                  /\ asset'[FindAsset(asset, a)].status = "available"
                  /\ \A i \in 1..Len(asset) :
                        asset[i].asset_id # a => asset'[i] = asset[i]]_vars

\* an asset that was assigned has been returned
C11_Witness ==
    /\ resp.status = 200
    /\ \E a \in AssetIds :
          /\ \E i \in 1..Len(assignment) : assignment[i].asset_id = a
          /\ ActiveOf(assignment, a) = {}
          /\ FindAsset(asset, a) # 0
          /\ asset[FindAsset(asset, a)].status = "available"

\* C12: a create-asset for an asset_id already stored answers 400 "Asset ID
\* already exists" and leaves the asset collection as it was; no two stored
\* assets share an asset_id
C12_AssetIdUnique ==
    [][/\ \A c \in Creds, a \in AssetIds :
            (Authorized(c, AdminManager) /\ FindAsset(asset, a) # 0 /\ CreateAsset(c, a))
            => /\ resp'.status = 400
               /\ resp'.detail = "Asset ID already exists"
               /\ asset' = asset
       /\ \A i, j \in 1..Len(asset') :
            i # j => asset'[i].asset_id # asset'[j].asset_id]_vars

\* two assets are stored and a create for a stored id was refused
C12_Witness ==
    /\ Len(asset) = 2
    /\ asset[1].asset_id # asset[2].asset_id
    /\ resp.status = 400
    /\ resp.detail = "Asset ID already exists"

C15_UnknownAssetNoChange ==
    [][\A c \in Creds, a \in AssetIds :
          (Authorized(c, AdminManager) /\ FindAsset(asset, a) = 0)
          => /\ \A n \in Assignees :
                  CreateAssignment(c, a, n)
                  => /\ resp'.status = 404
                     /\ resp'.detail = "Asset not found"
                     /\ UNCHANGED dbvars
             /\ \A d \in ServiceDays :
                  AddMaintenance(c, a, d)
                  => /\ resp'.status = 404
                     /\ resp'.detail = "Asset not found"
                     /\ UNCHANGED dbvars]_vars

\* a request for an asset that is not stored was refused while another
\* asset has an active assignment
C15_Witness ==
    /\ resp.status = 404
    /\ resp.detail = "Asset not found"
    /\ Len(asset) = 1
    /\ ActiveOf(assignment, asset[1].asset_id) # {}
    /\ asset[1].status = "assigned"

----------------------------------------------------------------------------
(* Properties of registration run without interleaving *)

\* C13: a registration for an email already stored answers 400 "Email
\* already registered", inserts no user and issues no session; no two
\* stored users share an email
C13_EmailUnique ==
    [][/\ \A e \in Emails, p \in Passwords, r \in Roles :
            (FindUserByEmail(users, e) # 0 /\ Register(e, p, r))
            => /\ resp'.status = 400
               /\ resp'.detail = "Email already registered"
               /\ resp'.token = 0
               /\ UNCHANGED <<users, TOKENS, issued>>
       /\ \A i, j \in 1..Len(users') :
            i # j => users'[i].email # users'[j].email]_vars

\* two users are stored and a registration for a stored email was refused
C13_Witness ==
    /\ Len(users) = 2
    /\ users[1].email # users[2].email
    /\ resp = EmailTaken
    /\ DOMAIN TOKENS = 1..2

----------------------------------------------------------------------------
(* Properties of the inventory thresholds and of the requisitions *)

\* C16: an upsert leaves exactly one threshold for its item_name, holding
\* the levels just given; it inserts only when the item had no threshold;
\* it leaves the thresholds of other items as they were; repeating an
\* upsert whose levels are already stored changes nothing; no two stored
\* thresholds share an item_name
C16_UpsertByItemName ==
    [][/\ \A c \in Creds, i \in Items, x, y \in Levels :
            (Authorized(c, AdminManager) /\ UpsertThreshold(c, i, x, y))
            => LET old == inventorythreshold
                   new == inventorythreshold'
                   k == FindThreshold(new, i)
               IN /\ resp'.status = 200
                  /\ k # 0
                  /\ new[k].current_level = x /\ new[k].min_level = y
                  /\ Cardinality({j \in 1..Len(new) : new[j].item_name = i}) = 1
                  /\ Len(new) = Len(old) + (IF FindThreshold(old, i) = 0 THEN 1 ELSE 0)
                  /\ \A j \in 1..Len(old) : old[j].item_name # i => new[j] = old[j]
                  /\ (FindThreshold(old, i) # 0
                        /\ old[FindThreshold(old, i)].current_level = x
                        /\ old[FindThreshold(old, i)].min_level = y) => new = old
       /\ \A j1, j2 \in 1..Len(inventorythreshold') :
            j1 # j2 => inventorythreshold'[j1].item_name # inventorythreshold'[j2].item_name]_vars

\* after an upsert both items have a threshold, each with its own levels
C16_Witness ==
    /\ resp.status = 200
    /\ Len(inventorythreshold) = 2
    /\ inventorythreshold[1].item_name # inventorythreshold[2].item_name
    /\ inventorythreshold[1].current_level = 1 /\ inventorythreshold[1].min_level = 0
    /\ inventorythreshold[2].current_level = 0 /\ inventorythreshold[2].min_level = 1

\* C17: the low-inventory query returns exactly the stored thresholds whose
\* current_level is strictly below min_level: each of them once, and none
\* whose current_level is equal to or above min_level
C17_LowInventoryExact ==
    LET ths == inventorythreshold
        low == low_inventory_alerts
    IN /\ \A i \in 1..Len(ths) :
            (ths[i].current_level < ths[i].min_level)
            <=> (\E j \in 1..Len(low) : low[j] = ths[i])
       /\ \A j \in 1..Len(low) : \E i \in 1..Len(ths) : low[j] = ths[i]
       /\ Len(low) = Cardinality({i \in 1..Len(ths) : ths[i].current_level < ths[i].min_level})

\* one threshold is low and one has equal, nonzero levels: the query
\* returns the low one only
C17_Witness ==
    /\ Len(inventorythreshold) = 2
    /\ inventorythreshold[1].current_level = 1 /\ inventorythreshold[1].min_level = 1
    /\ inventorythreshold[2].current_level = 0 /\ inventorythreshold[2].min_level = 1
    /\ low_inventory_alerts = <<inventorythreshold[2]>>

\* C18: every stored requisition has status "open"; a create stores the
\* requester, quantity and reason it was given; no step changes or removes
\* a stored requisition
C18_RequisitionsStayOpen ==
    [][/\ \A i \in 1..Len(requisition') : requisition'[i].status = "open"
       /\ Len(requisition') >= Len(requisition)
       /\ \A i \in 1..Len(requisition) : requisition'[i] = requisition[i]
       /\ \A c \in Creds, b \in Requesters, q \in Quantities, rs \in Reasons :
            (Authorized(c, AnyRole) /\ CreateRequisition(c, "Widgets", b, q, rs))
            => LET n == Len(requisition')
               IN /\ n = Len(requisition) + 1
                  /\ requisition'[n].status = "open"
                  /\ requisition'[n].requested_by = b
                  /\ requisition'[n].quantity = q
                  /\ requisition'[n].reason = rs]_vars

\* two requisitions that differ in requester, quantity and reason are
\* stored, and a threshold and an asset were written after the first
C18_Witness ==
    /\ Len(requisition) = 2
    /\ requisition[1].requested_by # requisition[2].requested_by
    /\ requisition[1].quantity # requisition[2].quantity
    /\ requisition[1].reason # requisition[2].reason
    /\ requisition[1].status = "open" /\ requisition[2].status = "open"
    /\ Len(inventorythreshold) = 1
    /\ Len(asset) = 1
    /\ resp.status = 200

----------------------------------------------------------------------------
(* Properties of the session table *)

Bearer(k) == [scheme |-> "bearer", token |-> k]

\* C19: a session entry that stays in the table is never altered; an entry
\* leaves the table only in a gated request that presents its token after
\* its expiry, and that request removes no other entry; a successful
\* registration or login adds its new entry and keeps all earlier ones; a
\* token that was removed is never in the table again, and a request that
\* presents it answers 401 and writes nothing
C19_LazyExpiry ==
    [][/\ \A k \in DOMAIN TOKENS :
            IF k \in DOMAIN TOKENS'
            THEN TOKENS'[k] = TOKENS[k]
            ELSE /\ TOKENS[k].expires_at < now
                 /\ \E a \in AssetIds : CreateAsset(Bearer(k), a)
                 /\ DOMAIN TOKENS' = (DOMAIN TOKENS) \ {k}
       /\ \A e \in Emails, p \in Passwords :
            (Login(e, p) /\ resp'.status = 200)
            => /\ DOMAIN TOKENS' = (DOMAIN TOKENS) \cup {resp'.token}
               /\ resp'.token \notin DOMAIN TOKENS
       /\ \A e \in Emails, p \in Passwords, r \in Roles :
            (Register(e, p, r) /\ resp'.status = 200)
            => /\ DOMAIN TOKENS' = (DOMAIN TOKENS) \cup {resp'.token}
               /\ resp'.token \notin DOMAIN TOKENS
       /\ \A k \in (1..issued) \ DOMAIN TOKENS :
            /\ k \notin DOMAIN TOKENS'
            /\ \A a \in AssetIds :
                  CreateAsset(Bearer(k), a)
                  => /\ resp'.status = 401
                     /\ UNCHANGED <<TOKENS, dbvars>>]_vars

\* the first token was removed after its expiry, the token of a later
\* login is still in the table, and a request presenting the removed
\* token was refused
C19_Witness ==
    /\ issued = 2
    /\ DOMAIN TOKENS = {2}
    /\ TOKENS[2].email = users[1].email
    /\ resp.status = 401
    /\ resp.detail = "Invalid token"

----------------------------------------------------------------------------
(* Asset status against the assignments *)

\* C20: when no request is in flight and no two requests have interleaved,
\* an asset with status "assigned" has exactly one active assignment, an
\* asset with status "available" has none, and an asset with an active
\* assignment has status "assigned" or "maintenance"
C20_StatusAgreesUnlessInterleaved ==
    (Quiet /\ overlap = {})
    => \A i \in 1..Len(asset) :
          LET n == Cardinality(ActiveOf(assignment, asset[i].asset_id))
          IN /\ asset[i].status = "assigned" => n = 1
             /\ asset[i].status = "available" => n = 0
             /\ n >= 1 => asset[i].status \in {"assigned", "maintenance"}

\* a create-assignment and a return-asset interleaved, and nothing else
\* did: the asset is "assigned" with no active assignment
C20_AssignedNoActive ==
    /\ Quiet
    /\ overlap = {{"create_assignment", "return_asset"}}
    /\ \E i \in 1..Len(asset) :
          /\ asset[i].status = "assigned"
          /\ ActiveOf(assignment, asset[i].asset_id) = {}

====
